---- MODULE Spec2Model ----
(***************************************************************************)
(* The LASSO penalty-search notebook                                       *)
(* "Regression - UWashington/week-5-lasso-assignment-1-opensource.ipynb"   *)
(* as a state machine.  The state is the kernel's namespace (the global    *)
(* variables the cells assign) and the output the search cells print; one  *)
(* action per code cell.  A cell runs its statements in order and stops at *)
(* the first exception, keeping what it assigned before.  The kernel runs  *)
(* cells in whatever order it is asked to (the execution counts in the     *)
(* file, 15, 2, 3, 4, 9, 65, 13, ..., are not in document order), or all   *)
(* of them in document order (Run All).                                    *)
(*                                                                         *)
(* Numbers.  A penalty is a fixed-point number in units of 1/19, the       *)
(* denominator of np.linspace(154, 206, 20); the values of np.logspace are *)
(* rounded to that unit.  An RSS is in units of 1e9, truncated             *)
(* (398213327300135.06 is 398213).                                         *)
(*                                                                         *)
(* The loop temporaries (model, predictions, RSS, non_zeros, index,        *)
(* l1_penalty) are assigned before they are read in every cell that uses   *)
(* them and are left out of the namespace.                                 *)
(***************************************************************************)
EXTENDS Integers, Sequences, FiniteSets, TLC

VARIABLES
    ns,     \* the kernel namespace: a function from defined names to values
    out,    \* the last outcome of the search cells: cell -> [status, lines]
    call,   \* a loop applied to a candidate sequence handed in as an input
    pc      \* Run All: the pass, the next cell of it, whether it began fresh

vars == <<ns, out, call, pc>>
\* what a cell can change
kernel == <<ns, out, call>>

(***************************************************************************)
(* Program constants                                                       *)
(***************************************************************************)
FineNum == 20
LogNum == 13
MaxNonzerosLiteral == 7

\* the denominator of the fine grid: linspace's step is (stop - start) / (num - 1)
Unit == FineNum - 1

\* an integer penalty literal in units of 1/Unit
Pen(x) == x * Unit

\* alpha of the refit after the scan: a wrong literal, 100 for 10
Model10AlphaMutant == Pen(100)

\* model10 = linear_model.Lasso(alpha=10, normalize=True)
Model10Alpha == Pen(10)

\* alpha of the refit after the fine phase: the other end of the grid
Model154AlphaMutant == Pen(206)

\* model154 = linear_model.Lasso(alpha=154, normalize=True)
Model154Alpha == Pen(154)

\* l1_penalty_min with the two ends exchanged
L1PenaltyMinMutant == Pen(207)

\* l1_penalty_min one too large: the first penalty that reaches the target
L1PenaltyMinOffByOne == Pen(154)

\* l1_penalty_min = 153
L1PenaltyMinLiteral == Pen(153)

\* l1_penalty_max with a digit mistyped
L1PenaltyMaxMutant == Pen(107)

\* l1_penalty_max = 207
L1PenaltyMaxLiteral == Pen(207)

(***************************************************************************)
(* numpy                                                                   *)
(***************************************************************************)
\* np.arange(lo, hi): lo, lo+1, ..., hi-1
Arange(lo, hi) == [i \in 1..(hi - lo) |-> Pen(lo + i - 1)]

\* a linspace whose points start one step late (an off-by-one in the index)
LinspaceMutant(start, stop, num) ==
    [i \in 1..num |-> start + (i * (stop - start)) \div (num - 1)]

\* np.linspace(start, stop, num), start and stop in units of 1/(num-1):
\* point i (from 0) is start + i * (stop - start) / (num - 1)
Linspace(start, stop, num) ==
    [i \in 1..num |-> start + ((i - 1) * (stop - start)) \div (num - 1)]

\* 10 ** (h/2) in units of 1/19, rounded, for h = 2..14
TenToTheHalves(h) ==
    <<190, 601, 1900, 6008, 19000, 60083, 190000, 600833, 1900000,
      6008328, 19000000, 60083276, 190000000>>[h - 1]

\* np.logspace(start, stop, num) = 10 ** linspace(start, stop, num); the
\* exponents of the notebook's call are multiples of 1/2
Logspace(start, stop, num) ==
    [i \in 1..num |->
        TenToTheHalves(2 * start + ((i - 1) * 2 * (stop - start)) \div (num - 1))]

\* zip(a, b): pairs, as long as the shorter argument
Zip(a, b) ==
    [i \in 1..(IF Len(a) < Len(b) THEN Len(a) ELSE Len(b)) |-> <<a[i], b[i]>>]

\* [0 for i in range(n)]
Zeros(n) == [i \in 1..n |-> 0]

(***************************************************************************)
(* The solver (sklearn's Lasso on the notebook's data), by what the        *)
(* notebook recorded of it.                                                *)
(***************************************************************************)
L1List == Logspace(1, 7, LogNum)
FineValues == Linspace(Pen(154), Pen(206), FineNum)

\* validation RSS printed by the scan, per penalty of l1_list
ScanRSSRecorded ==
    <<398213, 399041, 429791, 463739, 645898, 1222506, 1222506, 1222506,
      1222506, 1222506, 1222506, 1222506, 1222506>>

\* validation RSS printed by the fine phase, per penalty of l1_penalty_values
FineRSSRecorded ==
    <<439830, 440101, 440379, 440664, 440956, 441256, 441563, 441877, 442199,
      442528, 442865, 443209, 443560, 443921, 444287, 444660, 445041, 445429,
      445824, 446228>>

\* nonzero counts printed for the integer penalties 150..157 and 201..209
CoarseMinRecorded == <<8, 8, 8, 8, 7, 7, 7, 7>>
CoarseMaxRecorded == <<7, 7, 7, 7, 7, 7, 6, 6, 6>>

IndexOf(s, x) == CHOOSE i \in 1..Len(s) : s[i] = x
Occurs(s, x) == \E i \in 1..Len(s) : s[i] = x

\* RSS of the model fitted at penalty p on the validation set
ValidationRSS(p) ==
    IF Occurs(L1List, p) THEN ScanRSSRecorded[IndexOf(L1List, p)]
    ELSE FineRSSRecorded[IndexOf(FineValues, p)]

\* np.count_nonzero(model.coef_) + np.count_nonzero(model.intercept_) of the
\* model fitted at penalty p on the training set
NonZeros(p) ==
    CASE p = Pen(10) -> 15
      [] Occurs(Arange(150, 158), p) ->
            CoarseMinRecorded[IndexOf(Arange(150, 158), p)]
      [] Occurs(Arange(201, 210), p) ->
            CoarseMaxRecorded[IndexOf(Arange(201, 210), p)]
      [] Occurs(FineValues, p) -> 7

\* a data frame after a fit that normalises its argument in place (copy_X=False)
FrameAfterFitMutant(frame) == [frame EXCEPT !.scaled = TRUE]

\* the caller's data frame after Lasso(normalize=True, copy_X=True).fit or
\* .predict was handed it: the solver normalises a copy
FrameAfterFit(frame) == frame

(***************************************************************************)
(* The three loops, as functions of the candidate sequence                 *)
(***************************************************************************)
\* for l1_penalty in l1_list: fit, predict, RSS, print
ScanLoop(l1_list) ==
    [status |-> "ok",
     lines |-> [i \in 1..Len(l1_list) |->
                  [penalty |-> l1_list[i], RSS |-> ValidationRSS(l1_list[i])]]]

\* for index, l1_penalty in enumerate(values): fit, count, nonzeros[index] = count
\* over a list nonzeros of size entries: an index past the list raises IndexError
CoarseLoop(values, size) ==
    [status |-> IF Len(values) <= size THEN "ok" ELSE "IndexError",
     nonzeros |-> [i \in 1..size |->
                     IF i <= Len(values) THEN NonZeros(values[i]) ELSE 0]]

\* for l1_penalty in l1_penalty_values: fit, predict, RSS, count, print
FineLoop(l1_penalty_values) ==
    [status |-> "ok",
     lines |-> [i \in 1..Len(l1_penalty_values) |->
                  [penalty |-> l1_penalty_values[i],
                   RSS |-> ValidationRSS(l1_penalty_values[i]),
                   params |-> NonZeros(l1_penalty_values[i])]]]

(***************************************************************************)
(* The namespace                                                           *)
(***************************************************************************)
Has(n) == n \in DOMAIN ns
HasAll(S) == S \subseteq DOMAIN ns

Imports == {"np", "pd", "log", "sqrt", "linear_model"}
AllFeatures ==
    <<"bedrooms", "bedrooms_square", "bathrooms", "sqft_living",
      "sqft_living_sqrt", "sqft_lot", "sqft_lot_sqrt", "floors",
      "floors_square", "waterfront", "view", "condition", "grade",
      "sqft_above", "sqft_basement", "yr_built", "yr_renovated">>

\* pd.read_csv(file): the frame as loaded
ReadCsv(file) == [file |-> file, derived |-> FALSE, scaled |-> FALSE]
\* frame['sqft_living_sqrt'] = ..., and the three other derived columns
WithDerived(frame) == [frame EXCEPT !.derived = TRUE]

\* linear_model.Lasso(alpha=alpha, normalize=True)
Lasso(alpha) == [alpha |-> alpha, fitted |-> FALSE]
Fitted(model) == [model EXCEPT !.fitted = TRUE]

\* the data a search cell reads
SearchReady == HasAll({"linear_model", "training", "validation", "all_features"})
Frames == {"sales", "training", "validation", "testing"}

\* the namespace after the fits and predictions of a cell were handed the frames
AfterFits(space, names) ==
    [n \in DOMAIN space |->
        IF n \in names THEN FrameAfterFit(space[n]) ELSE space[n]]

Bind(space, n, v) == (n :> v) @@ space

\* the data a cell's fits read were all defined when it ran
ScanReady == HasAll({"training", "validation", "all_features"})
CoarseReady == HasAll({"training", "all_features"})

NoOutput == [status |-> "none", lines |-> <<>>, ready |-> FALSE]
\* a cell that stopped at an exception (or, with "ok", printed nothing)
Raised(error, ready) == [status |-> error, lines |-> <<>>, ready |-> ready]
\* a cell that ran its loop to the end
Printed(result, ready) ==
    [status |-> result.status, lines |-> result.lines, ready |-> ready]
NoCall == [loop |-> "none"]
NoRun == [pass |-> 0, cell |-> 0, fresh |-> FALSE]

(***************************************************************************)
(* The code cells, in document order                                       *)
(***************************************************************************)
\* import numpy as np ... from sklearn import linear_model
CellImports ==
    /\ ns' = [n \in Imports |-> "module"] @@ ns
    /\ UNCHANGED <<out, call>>

\* dtype_dict = {...}; sales = pd.read_csv('data/kc_house_data.csv', ...)
CellReadSales ==
    /\ ns' = IF Has("pd")
             THEN Bind(Bind(ns, "dtype_dict", "dict"), "sales",
                       ReadCsv("kc_house_data.csv"))
             ELSE Bind(ns, "dtype_dict", "dict")
    /\ UNCHANGED <<out, call>>

\* sales['sqft_living_sqrt'] = sales['sqft_living'].apply(sqrt), ...
CellSalesFeatures ==
    /\ ns' = IF HasAll({"sales", "sqrt"})
             THEN Bind(ns, "sales", WithDerived(ns["sales"]))
             ELSE ns
    /\ UNCHANGED <<out, call>>

\* all_features = <newline> [...].  As stored, the assignment ends at the line
\* break and the cell is a SyntaxError; the recorded session ran it as
\* execution 4 without an error output and had all_features defined after.
CellAllFeatures ==
    /\ \/ ns' = Bind(ns, "all_features", AllFeatures)
       \/ UNCHANGED ns
    /\ UNCHANGED <<out, call>>

\* model_all = linear_model.Lasso(alpha=5e2, normalize=True)
\* model_all.fit(sales[all_features], sales['price'])
CellModelAll ==
    /\ ns' = IF ~Has("linear_model") THEN ns
             ELSE IF HasAll({"sales", "all_features"}) /\ ns["sales"].derived
             THEN Bind(AfterFits(ns, {"sales"}), "model_all",
                       Fitted(Lasso(Pen(500))))
             ELSE Bind(ns, "model_all", Lasso(Pen(500)))
    /\ UNCHANGED <<out, call>>

\* model_all.coef_
CellShowCoef == UNCHANGED kernel

\* testing, training, validation = pd.read_csv(...), then the derived columns
CellLoadSplits ==
    /\ ns' = IF HasAll({"pd", "dtype_dict", "sqrt"})
             THEN Bind(Bind(Bind(ns,
                  "testing", WithDerived(ReadCsv("wk3_kc_house_test_data.csv"))),
                  "training", WithDerived(ReadCsv("wk3_kc_house_train_data.csv"))),
                  "validation", WithDerived(ReadCsv("wk3_kc_house_valid_data.csv")))
             ELSE ns
    /\ UNCHANGED <<out, call>>

\* l1_list = np.logspace(1, 7, num=13); the loop over l1_list
CellScan ==
    /\ IF ~Has("np")
         THEN /\ UNCHANGED ns
              /\ out' = [out EXCEPT !.scan = Raised("NameError", ScanReady)]
       ELSE IF ~SearchReady
         THEN /\ ns' = Bind(ns, "l1_list", L1List)
              /\ out' = [out EXCEPT !.scan = Raised("NameError", ScanReady)]
       ELSE /\ ns' = Bind(AfterFits(ns, {"training", "validation"}),
                          "l1_list", L1List)
            /\ out' = [out EXCEPT !.scan = Printed(ScanLoop(L1List), ScanReady)]
    /\ UNCHANGED call

\* model10 = linear_model.Lasso(alpha=10, normalize=True); fit on training,
\* predict on testing, print the RSS
CellModel10 ==
    /\ ns' = IF ~Has("linear_model") THEN ns
             ELSE IF HasAll({"training", "testing", "all_features"})
             THEN Bind(AfterFits(ns, {"training", "testing"}), "model10",
                       Fitted(Lasso(Model10Alpha)))
             ELSE Bind(ns, "model10", Lasso(Model10Alpha))
    /\ UNCHANGED <<out, call>>

\* np.count_nonzero(model10.coef_) + np.count_nonzero(model10.intercept_)
CellCount10 == UNCHANGED kernel

\* max_nonzeros = 7
CellMaxNonzeros ==
    /\ ns' = Bind(ns, "max_nonzeros", MaxNonzerosLiteral)
    /\ UNCHANGED <<out, call>>

\* np.arange(100,102) + np.arange(2)
CellArange == UNCHANGED kernel

\* np.logspace(2.1, 2.4, num=20)
CellLogspaceShow == UNCHANGED kernel

\* the coarse phase: the two candidate lists, the two lists of zeros sized by
\* len(l1_penalty_values), the two loops
CellCoarse ==
    /\ IF ~Has("np")
         THEN /\ UNCHANGED ns
              /\ out' = [out EXCEPT !.coarse = Raised("NameError", CoarseReady)]
       ELSE LET s1 == Bind(Bind(ns,
                        "l1_penalty_values_min", Arange(150, 158)),
                        "l1_penalty_values_max", Arange(201, 210))
            IN IF ~Has("l1_penalty_values")
                 THEN /\ ns' = s1
                      /\ out' = [out EXCEPT !.coarse = Raised("NameError", CoarseReady)]
               ELSE LET size == Len(ns["l1_penalty_values"])
                        s2 == Bind(Bind(s1, "nonzeros_min", Zeros(size)),
                                   "nonzeros_max", Zeros(size))
                        r1 == CoarseLoop(Arange(150, 158), size)
                        r2 == CoarseLoop(Arange(201, 210), size)
                    IN IF ~HasAll({"training", "all_features"})
                         THEN /\ ns' = s2
                              /\ out' = [out EXCEPT !.coarse = Raised("NameError", CoarseReady)]
                       ELSE IF r1.status # "ok"
                         THEN /\ ns' = Bind(AfterFits(s2, {"training"}),
                                            "nonzeros_min", r1.nonzeros)
                              /\ out' = [out EXCEPT !.coarse = Raised(r1.status, CoarseReady)]
                       ELSE /\ ns' = Bind(Bind(AfterFits(s2, {"training"}),
                                          "nonzeros_min", r1.nonzeros),
                                          "nonzeros_max", r2.nonzeros)
                            /\ out' = [out EXCEPT !.coarse = Raised(r2.status, CoarseReady)]
    /\ UNCHANGED call

\* print zip(l1_penalty_values_min, nonzeros_min)
CellPrintMin == UNCHANGED kernel

\* print zip(l1_penalty_values_max, nonzeros_max)
CellPrintMax == UNCHANGED kernel

\* l1_penalty_min = 153; l1_penalty_max = 207
CellBracket ==
    /\ ns' = Bind(Bind(ns, "l1_penalty_min", L1PenaltyMinLiteral),
                  "l1_penalty_max", L1PenaltyMaxLiteral)
    /\ UNCHANGED <<out, call>>

\* l1_penalty_values = np.linspace(154, 206, 20); the loop over it
CellFine ==
    /\ IF ~Has("np")
         THEN /\ UNCHANGED ns
              /\ out' = [out EXCEPT !.fine = Raised("NameError", ScanReady)]
       ELSE IF ~SearchReady
         THEN /\ ns' = Bind(ns, "l1_penalty_values", FineValues)
              /\ out' = [out EXCEPT !.fine = Raised("NameError", ScanReady)]
       ELSE /\ ns' = Bind(AfterFits(ns, {"training", "validation"}),
                          "l1_penalty_values", FineValues)
            /\ out' = [out EXCEPT !.fine = Printed(FineLoop(FineValues), ScanReady)]
    /\ UNCHANGED call

\* model154 = linear_model.Lasso(alpha=154, normalize=True); fit; print coef_
CellModel154 ==
    /\ ns' = IF ~Has("linear_model") THEN ns
             ELSE IF HasAll({"training", "all_features"})
             THEN Bind(AfterFits(ns, {"training"}), "model154",
                       Fitted(Lasso(Model154Alpha)))
             ELSE Bind(ns, "model154", Lasso(Model154Alpha))
    /\ UNCHANGED <<out, call>>

\* the last cell repeats the text of the all_features cell and was never
\* executed (execution_count null): as stored it is a SyntaxError
CellAllFeaturesAgain == UNCHANGED kernel

Init ==
    /\ ns = <<>>
    /\ out = [c \in {"scan", "coarse", "fine"} |-> NoOutput]
    /\ call = NoCall
    /\ pc = NoRun

\* a cell executed on its own, by hand
ByHand(Cell) == Cell /\ UNCHANGED pc

Next ==
    \/ ByHand(CellImports) \/ ByHand(CellReadSales)
    \/ ByHand(CellSalesFeatures) \/ ByHand(CellAllFeatures)
    \/ ByHand(CellModelAll) \/ ByHand(CellShowCoef)
    \/ ByHand(CellLoadSplits) \/ ByHand(CellScan)
    \/ ByHand(CellModel10) \/ ByHand(CellCount10)
    \/ ByHand(CellMaxNonzeros) \/ ByHand(CellArange)
    \/ ByHand(CellLogspaceShow) \/ ByHand(CellCoarse)
    \/ ByHand(CellPrintMin) \/ ByHand(CellPrintMax)
    \/ ByHand(CellBracket) \/ ByHand(CellFine)
    \/ ByHand(CellModel154) \/ ByHand(CellAllFeaturesAgain)

Spec == Init /\ [][Next]_vars

(***************************************************************************)
(* The loops applied to a candidate sequence that is an input: the kernel  *)
(* holds the imports, the three data sets, the feature list and the        *)
(* target; the sequence (l1_list, l1_penalty_values, ...) is drawn from    *)
(* the penalties the notebook recorded the solver's answer for.            *)
(***************************************************************************)
MaxCands == 3

SeqsUpTo(S, n) == UNION {[1..k -> S] : k \in 0..n}

ScanPool == {L1List[i] : i \in 1..3}
FinePool == {Pen(10), FineValues[1], FineValues[2], FineValues[FineNum]}
CoarsePool == {Pen(153), Pen(154), Pen(206), Pen(207)}

Prepared ==
    Bind(Bind(Bind(Bind(Bind(Bind([n \in Imports |-> "module"],
        "dtype_dict", "dict"),
        "testing", WithDerived(ReadCsv("wk3_kc_house_test_data.csv"))),
        "training", WithDerived(ReadCsv("wk3_kc_house_train_data.csv"))),
        "validation", WithDerived(ReadCsv("wk3_kc_house_valid_data.csv"))),
        "all_features", AllFeatures),
        "max_nonzeros", MaxNonzerosLiteral)

Pending(loop, cands, size) ==
    [loop |-> loop, cands |-> cands, size |-> size, state |-> "pending",
     result |-> NoOutput]

InitLoops ==
    /\ ns = Prepared
    /\ pc = NoRun
    /\ out = [c \in {"scan", "coarse", "fine"} |-> NoOutput]
    /\ call \in {Pending("scan", c, 0) : c \in SeqsUpTo(ScanPool, MaxCands)}
          \cup {Pending("fine", c, 0) : c \in SeqsUpTo(FinePool, MaxCands)}
          \cup {Pending("coarse", c, n) :
                   c \in SeqsUpTo(CoarsePool, MaxCands), n \in 0..MaxCands}

\* l1_list = <the input>; the scan's loop
ApplyScan ==
    /\ call.loop = "scan" /\ call.state = "pending"
    /\ ns' = Bind(AfterFits(ns, {"training", "validation"}), "l1_list", call.cands)
    /\ call' = [call EXCEPT !.state = "done",
                            !.result = Printed(ScanLoop(call.cands), ScanReady)]
    /\ UNCHANGED out

\* nonzeros = [0 for i in range(size)]; one coarse loop over the input
ApplyCoarse ==
    /\ call.loop = "coarse" /\ call.state = "pending"
    /\ LET r == CoarseLoop(call.cands, call.size)
       IN /\ ns' = Bind(Bind(AfterFits(ns, {"training"}),
                        "l1_penalty_values_min", call.cands),
                        "nonzeros_min", r.nonzeros)
          /\ call' = [call EXCEPT !.state = "done",
                                  !.result = Raised(r.status, CoarseReady)]
    /\ UNCHANGED out

\* l1_penalty_values = <the input>; the fine phase's loop
ApplyFine ==
    /\ call.loop = "fine" /\ call.state = "pending"
    /\ ns' = Bind(AfterFits(ns, {"training", "validation"}),
                  "l1_penalty_values", call.cands)
    /\ call' = [call EXCEPT !.state = "done",
                            !.result = Printed(FineLoop(call.cands), ScanReady)]
    /\ UNCHANGED out

NextLoops == ByHand(ApplyScan) \/ ByHand(ApplyCoarse) \/ ByHand(ApplyFine)

SpecLoops == InitLoops /\ [][NextLoops]_vars

(***************************************************************************)
(* Run All: the code cells executed once each in document order, from a    *)
(* kernel with nothing defined.  A cell that raises does not stop the      *)
(* cells after it from being run.  After the last cell the notebook may be *)
(* run again in the same kernel, or the kernel restarted and run again.    *)
(***************************************************************************)
MaxPasses == 3
CellCount == 20

\* the names cell k reads without having assigned them earlier in the cell
ReadsOf(k) ==
    CASE k = 1 -> {}
      [] k = 2 -> {"pd"}
      [] k = 3 -> {"sales", "sqrt"}
      [] k = 4 -> {}
      [] k = 5 -> {"linear_model", "sales", "all_features"}
      [] k = 6 -> {"model_all"}
      [] k = 7 -> {"pd", "dtype_dict", "sqrt"}
      [] k = 8 -> {"np", "linear_model", "training", "all_features", "validation"}
      [] k = 9 -> {"linear_model", "training", "all_features", "testing"}
      [] k = 10 -> {"np", "model10"}
      [] k = 11 -> {}
      [] k = 12 -> {"np"}
      [] k = 13 -> {"np"}
      [] k = 14 -> {"np", "l1_penalty_values", "linear_model", "training",
                    "all_features"}
      [] k = 15 -> {"l1_penalty_values_min", "nonzeros_min"}
      [] k = 16 -> {"l1_penalty_values_max", "nonzeros_max"}
      [] k = 17 -> {}
      [] k = 18 -> {"np", "linear_model", "training", "all_features", "validation"}
      [] k = 19 -> {"linear_model", "training", "all_features"}
      [] k = 20 -> {}

FreshOut == [c \in {"scan", "coarse", "fine"} |-> NoOutput]

InitRunAll ==
    /\ ns = <<>>
    /\ out = FreshOut
    /\ call = NoCall
    /\ pc = [pass |-> 1, cell |-> 1, fresh |-> TRUE]

\* cell k of the document, run as the pass reaches it
InOrder(k, Cell) ==
    /\ pc.cell = k
    /\ Cell
    /\ pc' = [pc EXCEPT !.cell = k + 1]

\* Run All once more in the same kernel
RunAllAgain ==
    /\ pc.cell = CellCount + 1 /\ pc.pass < MaxPasses
    /\ pc' = [pass |-> pc.pass + 1, cell |-> 1, fresh |-> FALSE]
    /\ UNCHANGED kernel

\* Restart the kernel and Run All
RestartRunAll ==
    /\ pc.cell = CellCount + 1 /\ pc.pass < MaxPasses
    /\ ns' = <<>> /\ out' = FreshOut /\ UNCHANGED call
    /\ pc' = [pass |-> pc.pass + 1, cell |-> 1, fresh |-> TRUE]

NextRunAll ==
    \/ InOrder(1, CellImports) \/ InOrder(2, CellReadSales)
    \/ InOrder(3, CellSalesFeatures) \/ InOrder(4, CellAllFeatures)
    \/ InOrder(5, CellModelAll) \/ InOrder(6, CellShowCoef)
    \/ InOrder(7, CellLoadSplits) \/ InOrder(8, CellScan)
    \/ InOrder(9, CellModel10) \/ InOrder(10, CellCount10)
    \/ InOrder(11, CellMaxNonzeros) \/ InOrder(12, CellArange)
    \/ InOrder(13, CellLogspaceShow) \/ InOrder(14, CellCoarse)
    \/ InOrder(15, CellPrintMin) \/ InOrder(16, CellPrintMax)
    \/ InOrder(17, CellBracket) \/ InOrder(18, CellFine)
    \/ InOrder(19, CellModel154) \/ InOrder(20, CellAllFeaturesAgain)
    \/ RunAllAgain \/ RestartRunAll

SpecRunAll == InitRunAll /\ [][NextRunAll]_vars

(***************************************************************************)
(* Vocabulary of the properties                                            *)
(***************************************************************************)
SetMin(S) == CHOOSE x \in S : \A y \in S : x <= y
SetMax(S) == CHOOSE x \in S : \A y \in S : x >= y
Indices(s) == 1..Len(s)
StrictlyIncreasing(s) == \A i \in Indices(s) : i > 1 => s[i - 1] < s[i]
NonIncreasing(s) == \A i \in Indices(s) : i > 1 => s[i - 1] >= s[i]
EvenlySpaced(s) ==
    \A i \in Indices(s) : i > 2 => s[i] - s[i - 1] = s[i - 1] - s[i - 2]

\* the lines whose nonzero-count is the target, and the least-RSS ones of them
Hits(lines, target) == {i \in Indices(lines) : lines[i].params = target}
LeastRSS(lines, among) ==
    {i \in among : \A j \in among : lines[i].RSS <= lines[j].RSS}

ScanDone == out["scan"].status = "ok"
CoarseDone == out["coarse"].status = "ok"
FineDone == out["fine"].status = "ok"
IsFitted(name) == Has(name) /\ ns[name].fitted
BracketChosen == HasAll({"l1_penalty_min", "l1_penalty_max"})

\* the (penalty, nonzero-count) pairs the coarse phase printed, in penalty order
CoarsePairs ==
    Zip(ns["l1_penalty_values_min"], ns["nonzeros_min"])
        \o Zip(ns["l1_penalty_values_max"], ns["nonzeros_max"])
PairPenalties(pairs) == [i \in Indices(pairs) |-> pairs[i][1]]
PairCounts(pairs) == [i \in Indices(pairs) |-> pairs[i][2]]
CountAt(pairs, p) == pairs[CHOOSE i \in Indices(pairs) : pairs[i][1] = p][2]

\* the bracket rule as the specification words it, and with strict comparisons
NoPenalty == 0 - 1
RuleMaxNonStrict(pairs, target) ==
    LET S == {pairs[i][1] : i \in {j \in Indices(pairs) : pairs[j][2] <= target}}
    IN IF S = {} THEN NoPenalty ELSE SetMin(S)
RuleMinNonStrict(pairs, target) ==
    LET S == {pairs[i][1] : i \in {j \in Indices(pairs) : pairs[j][2] >= target}}
    IN IF S = {} THEN NoPenalty ELSE SetMax(S)
RuleMaxStrict(pairs, target) ==
    LET S == {pairs[i][1] : i \in {j \in Indices(pairs) : pairs[j][2] < target}}
    IN IF S = {} THEN NoPenalty ELSE SetMin(S)
RuleMinStrict(pairs, target) ==
    LET S == {pairs[i][1] : i \in {j \in Indices(pairs) : pairs[j][2] > target}}
    IN IF S = {} THEN NoPenalty ELSE SetMax(S)

C2_TargetOrUnreachable ==
    (call.loop = "fine" /\ call.state = "done" /\ call.cands # <<>>) =>
        LET lines == call.result.lines
            hits == Hits(lines, ns["max_nonzeros"])
        IN IF hits # {}
           THEN /\ call.result.status = "ok"
                /\ \A i \in LeastRSS(lines, hits) :
                      lines[i].params = ns["max_nonzeros"]
           ELSE /\ call.result.status = "UnreachableSparsity"
                /\ lines = <<>>

(***************************************************************************)
(* C3.  Coarse phase: once the coarse loops have run over their nonempty,  *)
(* strictly increasing penalties and the bracket is chosen, both ends of   *)
(* the bracket are scanned penalties and                                   *)
(* nonzero-count(min) >= target >= nonzero-count(max).                     *)
(***************************************************************************)
C3_BracketStraddlesTarget ==
    (/\ CoarseDone /\ BracketChosen /\ Has("max_nonzeros")
     /\ CoarsePairs # <<>>
     /\ StrictlyIncreasing(PairPenalties(CoarsePairs))) =>
        LET pens == PairPenalties(CoarsePairs)
        IN /\ Occurs(pens, ns["l1_penalty_min"])
           /\ Occurs(pens, ns["l1_penalty_max"])
           /\ CountAt(CoarsePairs, ns["l1_penalty_min"]) >= ns["max_nonzeros"]
           /\ ns["max_nonzeros"] >= CountAt(CoarsePairs, ns["l1_penalty_max"])

C3_Witness ==
    /\ CoarseDone /\ BracketChosen /\ Has("max_nonzeros")
    /\ CoarsePairs # <<>>
    /\ StrictlyIncreasing(PairPenalties(CoarsePairs))
    /\ CountAt(CoarsePairs, ns["l1_penalty_min"]) = 8
    /\ CountAt(CoarsePairs, ns["l1_penalty_max"]) = 6

(***************************************************************************)
(* C4.  With target 7 and the recorded counts for 150..157 and 201..209,   *)
(* the claimed rule (max = smallest penalty with count <= target, min =    *)
(* largest penalty with count >= target) gives min = 153 and max = 207,    *)
(* the bracket the notebook chose.                                         *)
(***************************************************************************)
RecordedCoarseRun ==
    /\ CoarseDone /\ BracketChosen /\ Has("max_nonzeros")
    /\ ns["max_nonzeros"] = 7
    /\ PairPenalties(CoarsePairs) = Arange(150, 158) \o Arange(201, 210)
    /\ PairCounts(CoarsePairs) =
          <<8, 8, 8, 8, 7, 7, 7, 7>> \o <<7, 7, 7, 7, 7, 7, 6, 6, 6>>

C4_NonStrictRuleBrackets ==
    RecordedCoarseRun =>
        /\ RuleMinNonStrict(CoarsePairs, 7) = Pen(153)
        /\ RuleMaxNonStrict(CoarsePairs, 7) = Pen(207)
        /\ ns["l1_penalty_min"] = Pen(153)
        /\ ns["l1_penalty_max"] = Pen(207)

(***************************************************************************)
(* C4 as amended.  With target 7 and the recorded counts, the rule with    *)
(* strict comparisons (max = smallest penalty with count < target, min =   *)
(* largest penalty with count > target) gives min = 153 and max = 207, the *)
(* bracket the notebook chose; the non-strict rule gives 206 and 154.      *)
(***************************************************************************)
C4_StrictRuleBrackets ==
    RecordedCoarseRun =>
        /\ RuleMinStrict(CoarsePairs, 7) = Pen(153)
        /\ RuleMaxStrict(CoarsePairs, 7) = Pen(207)
        /\ ns["l1_penalty_min"] = RuleMinStrict(CoarsePairs, 7)
        /\ ns["l1_penalty_max"] = RuleMaxStrict(CoarsePairs, 7)
        /\ RuleMinNonStrict(CoarsePairs, 7) = Pen(206)
        /\ RuleMaxNonStrict(CoarsePairs, 7) = Pen(154)

C4_Witness == RecordedCoarseRun /\ ns["l1_penalty_min"] = Pen(153)

C6_EmptyIsInvalidInput ==
    (call.loop \in {"scan", "fine"} /\ call.state = "done" /\ call.cands = <<>>) =>
        /\ call.result.status = "InvalidInput"
        /\ call.result.lines = <<>>

(***************************************************************************)
(* C7.  The fine phase's candidates are ordered and evenly spaced from the *)
(* bracket's min to its max: the first is min, the last is max, and each   *)
(* lies in [min, max].                                                     *)
(***************************************************************************)
FineGridKnown == BracketChosen /\ Has("l1_penalty_values")

C7_FineGridSpansBracket ==
    FineGridKnown =>
        LET v == ns["l1_penalty_values"]
        IN /\ v # <<>>
           /\ StrictlyIncreasing(v) /\ EvenlySpaced(v)
           /\ v[1] = ns["l1_penalty_min"]
           /\ v[Len(v)] = ns["l1_penalty_max"]
           /\ \A i \in Indices(v) :
                ns["l1_penalty_min"] <= v[i] /\ v[i] <= ns["l1_penalty_max"]

(***************************************************************************)
(* C7 as amended.  The fine phase's candidates are 20 ordered, evenly      *)
(* spaced values from 154 to 206 inclusive; each lies in the bracket       *)
(* [min, max] = [153, 207], but the first (154) and the last (206) are the *)
(* innermost integers whose count is the target, not the bracket's ends.   *)
(***************************************************************************)
C7_FineGridInsideBracket ==
    FineGridKnown =>
        LET v == ns["l1_penalty_values"]
        IN /\ Len(v) = 20
           /\ StrictlyIncreasing(v) /\ EvenlySpaced(v)
           /\ v[1] = Pen(154) /\ v[Len(v)] = Pen(206)
           /\ ns["l1_penalty_min"] < v[1]
           /\ v[Len(v)] < ns["l1_penalty_max"]
           /\ \A i \in Indices(v) :
                ns["l1_penalty_min"] <= v[i] /\ v[i] <= ns["l1_penalty_max"]

C7_Witness == FineGridKnown /\ FineDone /\ Len(out["fine"].lines) = 20

(***************************************************************************)
(* C8.  A step of the search (the scan, the coarse phase, the fine phase   *)
(* and the two refits of the chosen penalty) leaves the training,          *)
(* validation and test data, the sales data and the feature list as they   *)
(* were: defined or not, and with the same value.                          *)
(***************************************************************************)
SearchStep == CellScan \/ CellModel10 \/ CellCoarse \/ CellFine \/ CellModel154
InputNames == Frames \cup {"all_features"}

C8_SearchLeavesInputs ==
    [][SearchStep =>
        \A n \in InputNames :
            /\ (n \in DOMAIN ns) <=> (n \in DOMAIN ns')
            /\ (n \in DOMAIN ns) => ns'[n] = ns[n]]_vars

C8_Witness ==
    /\ ScanDone /\ CoarseDone /\ FineDone
    /\ IsFitted("model10") /\ IsFitted("model154")
    /\ \A n \in {"training", "validation", "testing"} :
          ns[n].derived /\ ~ns[n].scaled

(***************************************************************************)
(* C9.  Idempotence: a search cell run again with the same data defined    *)
(* as at its previous run yields the outcome of that run (the same lines   *)
(* or the same error): nothing the kernel kept in between changes it.      *)
(***************************************************************************)
C9_RerunSameOutcome ==
    [][/\ (/\ CellScan /\ ScanReady /\ out["scan"].ready
           /\ out["scan"].status # "none") => out'["scan"] = out["scan"]
       /\ (/\ CellFine /\ ScanReady /\ out["fine"].ready
           /\ out["fine"].status # "none") => out'["fine"] = out["fine"]
       /\ (/\ CellCoarse /\ CoarseReady /\ out["coarse"].ready
           /\ out["coarse"].status # "none") => out'["coarse"] = out["coarse"]
      ]_vars

(***************************************************************************)
(* C10.  When the coarse loops have run over strictly increasing penalties *)
(* with non-increasing counts and the bracket is chosen, min <= max, and   *)
(* the evenly spaced sequence from min to max is nonempty and ascending.   *)
(***************************************************************************)
C10_BracketOrdered ==
    (/\ CoarseDone /\ BracketChosen
     /\ StrictlyIncreasing(PairPenalties(CoarsePairs))
     /\ NonIncreasing(PairCounts(CoarsePairs))) =>
        LET v == Linspace(ns["l1_penalty_min"], ns["l1_penalty_max"], FineNum)
        IN /\ ns["l1_penalty_min"] <= ns["l1_penalty_max"]
           /\ v # <<>>
           /\ \A i \in Indices(v) : i > 1 => v[i - 1] <= v[i]

C10_Witness ==
    /\ CoarseDone /\ BracketChosen
    /\ StrictlyIncreasing(PairPenalties(CoarsePairs))
    /\ NonIncreasing(PairCounts(CoarsePairs))
    /\ ns["l1_penalty_min"] < ns["l1_penalty_max"]

(***************************************************************************)
(* C11.  In a pass over the cells in document order that began with        *)
(* nothing defined, every name a cell reads is defined when the cell runs  *)
(* (assigned by an earlier cell).                                          *)
(***************************************************************************)
CellReadsAssigned(k) ==
    (pc.fresh /\ pc.cell = k /\ pc'.cell = k + 1) =>
        ReadsOf(k) \subseteq DOMAIN ns

C11_ReadsAreAssigned ==
    [][\A k \in 1..CellCount : CellReadsAssigned(k)]_vars

(***************************************************************************)
(* C11, the case it names.  In such a pass every name the coarse-phase     *)
(* cell (the 14th code cell) reads is defined when the cell runs; in       *)
(* particular l1_penalty_values is defined when the cell uses its length   *)
(* to size nonzeros_min and nonzeros_max.                                  *)
(***************************************************************************)
C11_CoarseReadsAssigned ==
    [][CellReadsAssigned(14) /\
       ((pc.fresh /\ pc.cell = 14 /\ pc'.cell = 15) =>
            "l1_penalty_values" \in DOMAIN ns)]_vars
====
